---- MODULE Spec2Model ----
(***************************************************************************)
(* Process-lifecycle model of camera_app.py (class RPiCameraHeadless).     *)
(*                                                                         *)
(* State: the object's fields (preview_process, video_process, recording,  *)
(* preview_active, running, quiet_mode), the operating system's process    *)
(* table restricted to the camera tools (procs), and one program counter   *)
(* with a return stack per Python thread: the main thread (keypress loop)  *)
(* and the take_photo worker threads process_keypress starts.              *)
(*                                                                         *)
(* Granularity: CPython may switch threads between any two bytecodes; the  *)
(* model switches at every blocking call (Popen.wait, subprocess.run,      *)
(* Popen, time.sleep, the read of a key) and where a method returns into   *)
(* its caller.  One action is the code from the return of one blocking     *)
(* call to the start of the next; the effect of a blocking call (a child   *)
(* exits, a kill command runs) is applied when it returns.                 *)
(*                                                                         *)
(* Environment: what a child process does (exits on SIGTERM or not, exits  *)
(* on SIGKILL within the wait or not, the photo tool's exit code and       *)
(* output file, a spawn that fails, a pgrep/pkill command that fails) is   *)
(* drawn from small sets inside the action that observes it.               *)
(*                                                                         *)
(* Spec is the application (main, the key loop, cleanup) on a machine      *)
(* whose pgrep and sudo pkill commands work.  SpecApi is the object's      *)
(* methods called one after the other by a single thread, on a machine     *)
(* where these commands may also fail.                                     *)
(***************************************************************************)
EXTENDS Integers, Sequences, FiniteSets, TLC

\* ---------------------------------------------------------------- bounds
MaxWorkers == 1     \* take_photo worker threads that can exist at once
MaxProcs == 3       \* camera-tool processes the process table can hold

\* ------------------------------------------------------------- constants
None == 0
Main == 0
Workers == 1..MaxWorkers
Threads == {Main} \cup Workers
Pid == 1..MaxProcs

\* exit codes of the photo tool: success, a failure (1) and the code of a child
\* killed by a signal (-9)
RetCodes == {0, 1, -9}

VARIABLES
    preview_process,  \* self.preview_process: a Pid or None
    video_process,    \* self.video_process: a Pid or None
    recording,        \* self.recording
    preview_active,   \* self.preview_active
    running,          \* self.running
    quiet_mode,       \* self.quiet_mode
    procs,            \* process table: Pid -> role of the live process, "none" when no live process
    pc,               \* thread -> the blocking call or entry point the thread is at
    stack,            \* thread -> return labels of the calls in progress
    was_active,       \* thread -> take_photo's local was_active
    h,                \* thread -> the Popen object the thread waits on (preview in stop_preview, photo tool in take_photo)
    out,              \* thread -> what the operation in progress has reported
    pv_err,           \* thread -> start_preview failed to spawn during the operation in progress
    sent,             \* signals and kill commands issued by the last step
    faulty,           \* environment: the pgrep and sudo pkill commands of this machine can fail
    patched,          \* builtins.print has been replaced by safe_global_print (setup_terminal succeeded)
    diag,             \* the diagnosis take_photo prints for a non-zero exit code
    vrep,             \* the videos directory and the file stop_video_recording reports as saved
    store,            \* the photo and video files and what cleanup_old_files removed of them
    call              \* the method the main thread has called from the key loop (or as the object's user), "none" between calls

vars == <<preview_process, video_process, recording, preview_active, running, quiet_mode,
          procs, pc, stack, was_active, h, out, pv_err, sent, faulty, patched, diag, vrep, store, call>>

\* ------------------------------------------------------------ helpers
\* what an operation has reported: the outcome (kind), the end of the photo tool
\* it rests on (how, rc, exists, size), and whether the message reached the
\* terminal (shown)
NoOut == [kind |-> "none", how |-> "none", rc |-> 0, exists |-> FALSE, size |-> 0,
          shown |-> FALSE]

Report(k) == [NoOut EXCEPT !.kind = k]

\* self.safe_print(message): returns without output in quiet mode
SafePrint(r) == [r EXCEPT !.shown = ~quiet_mode]

\* print(message): safe_global_print, once builtins.print is replaced, drops a
\* message without a critical marker in quiet mode
GlobalPrint(r, critical) == [r EXCEPT !.shown = ~patched \/ critical \/ ~quiet_mode]

\* print_formatted(message, force_output=True) and print_always(message) call
\* print(message, flush=True).  Once builtins.print is replaced this reaches
\* self.original_print(*args, **kwargs, flush=True) with flush passed twice,
\* which raises, in the try and again in its except fallback, unless
\* safe_global_print drops the message first (quiet mode, no critical marker).
PrintFormattedRaises(critical) == patched /\ (critical \/ ~quiet_mode)

\* print_formatted(message, force_output=True) that did not raise: the message
\* is on the terminal unless safe_global_print dropped it
PrintFormatted(r) == [r EXCEPT !.shown = ~patched]

\* an exception nothing catches: a worker thread ends; the main thread leaves
\* run() through its "except Exception" (whose print_formatted raises again)
\* and its finally, and main() prints the error and returns without cleanup()
Uncaught(t) ==
    /\ pc' = [pc EXCEPT ![t] = IF t = Main THEN "crashed" ELSE "off"]
    /\ stack' = [stack EXCEPT ![t] = <<>>]

\* the executable a process of the given role runs (what pgrep -f matches)
Tool(role) ==
    IF role \in {"preview", "preview_rec", "photo", "stale_still"} THEN "raspistill"
    ELSE IF role \in {"video", "stale_vid"} THEN "raspivid"
    ELSE "none"

\* Popen.poll() is None: the child is still in the process table
Alive(p) == p # None /\ procs[p] # "none"

\* pgrep -f <tool>: the live processes whose command line holds the tool's name
Matching(tool) == {p \in Pid : Tool(procs[p]) = tool}

\* the live processes the application has spawned: by start_preview (Popen of
\* raspistill -t 0), by start_video_recording (Popen of raspivid) and by
\* take_photo (subprocess.run of raspistill -o)
Previews == {p \in Pid : procs[p] \in {"preview", "preview_rec"}}

Videos == {p \in Pid : procs[p] = "video"}

Photos == {p \in Pid : procs[p] = "photo"}

\* the process table after the processes in S have exited
Kill(S) == [p \in Pid |-> IF p \in S THEN "none" ELSE procs[p]]

Referenced == {preview_process, video_process} \cup {h[t] : t \in Threads}

FreePids == {p \in Pid : procs[p] = "none" /\ p \notin Referenced}

NewPid == CHOOSE p \in FreePids : \A q \in FreePids : p <= q

\* the process table after subprocess.Popen started a process of the given role
Spawn(role) == [procs EXCEPT ![NewPid] = role]

\* outcome of one "pgrep -f tool; if found: sudo pkill -9 -f tool" inside try/except:
\* "ok" the commands ran, "fail" one of them raised or timed out (swallowed).
\* Whether they can fail (pgrep missing, sudo asking for a password) is a property
\* of the machine, drawn in Init.
ReapOutcomes == IF faulty THEN {"ok", "fail"} ELSE {"ok"}

\* a reap whose pgrep never finds a process
ReapFound_Never(tool) == FALSE

\* a reap that does not look at what pgrep found
ReapFound_Always(tool) == TRUE

\* the guard of the forced kill (result.returncode == 0 and result.stdout)
ReapFound(tool) == Matching(tool) # {}

ReapProcs(tool, o) == IF o = "ok" /\ ReapFound(tool) THEN Kill(Matching(tool)) ELSE procs

ReapSent(tool, o) == IF o = "ok" /\ ReapFound(tool) THEN {<<"pkill9", tool>>} ELSE {}

\* Popen.terminate()/kill(): send_signal polls first and signals only a child
\* still running; the signal is logged with the role of the process it goes to
Signal(sig, p) == IF Alive(p) THEN {<<sig, procs[p]>>} ELSE {}

\* continue at label, with the return labels rets pushed
Enter(t, label, rets) ==
    /\ pc' = [pc EXCEPT ![t] = label]
    /\ stack' = [stack EXCEPT ![t] = rets \o @]

\* a method that returns at once: continue at the first of the labels rets
Resume(t, rets) == Enter(t, Head(rets), Tail(rets))

Return(t) ==
    /\ pc' = [pc EXCEPT ![t] = Head(stack[t])]
    /\ stack' = [stack EXCEPT ![t] = Tail(@)]

\* --------------------------------------------------------- stop_preview
\* if self.preview_process:
HoldsPreview == preview_process # None

\* a stop_preview that starts with kill() instead of terminate()
SpBegin_KillAtOnce(t, rets, before) ==
    IF HoldsPreview
    THEN /\ sent' = before \cup Signal("kill", preview_process)
         /\ h' = [h EXCEPT ![t] = preview_process]
         /\ Enter(t, "sp_wait2", rets)
    ELSE /\ sent' = before
         /\ h' = h
         /\ Enter(t, "sp_reap", rets)

\* entry of stop_preview, up to its first blocking call:
\* if self.preview_process: terminate(); wait(timeout=2)   else: pgrep
\* (before: what the calling step has already sent).  An error raised by
\* terminate() goes to the outer "except Exception" (the pkill -f).
SpBegin(t, rets, before) ==
    IF HoldsPreview
    THEN \E raised \in BOOLEAN :
           IF raised
           THEN /\ sent' = before
                /\ h' = h
                /\ Enter(t, "sp_pkill", rets)
           ELSE /\ sent' = before \cup Signal("term", preview_process)
                /\ h' = [h EXCEPT ![t] = preview_process]
                /\ Enter(t, "sp_wait2", rets)
    ELSE /\ sent' = before
         /\ h' = h
         /\ Enter(t, "sp_reap", rets)

\* wait(timeout=2) returns (graceful: finally clears the handle) or raises
\* TimeoutExpired: self.preview_process.kill(); self.preview_process.wait(timeout=1).
\* The attribute is read again: None raises AttributeError into the outer except,
\* as does an error raised by kill().
SpWait2(t) ==
    /\ pc[t] = "sp_wait2"
    /\ \E exited \in BOOLEAN :
         IF ~Alive(h[t]) \/ exited
         THEN /\ procs' = Kill({h[t]})
              /\ preview_process' = None
              /\ h' = [h EXCEPT ![t] = None]
              /\ sent' = {}
              /\ Enter(t, "sp_reap", <<>>)
         ELSE IF preview_process = None
         THEN /\ h' = [h EXCEPT ![t] = None]
              /\ sent' = {}
              /\ Enter(t, "sp_pkill", <<>>)
              /\ UNCHANGED <<procs, preview_process>>
         ELSE \E raised \in BOOLEAN :
              /\ IF raised
                 THEN /\ sent' = {}
                      /\ h' = [h EXCEPT ![t] = None]
                      /\ Enter(t, "sp_pkill", <<>>)
                 ELSE /\ sent' = Signal("kill", preview_process)
                      /\ h' = [h EXCEPT ![t] = preview_process]
                      /\ Enter(t, "sp_wait1", <<>>)
              /\ UNCHANGED <<procs, preview_process>>
    /\ UNCHANGED <<video_process, recording, preview_active, running, quiet_mode,
                   was_active, out, pv_err, faulty, diag, vrep, store, call, patched>>

\* a stop_preview that signals and waits again until the child has exited
SpWait1_UntilExit(t) ==
    /\ pc[t] = "sp_wait1"
    /\ \E exited \in BOOLEAN :
         IF ~Alive(h[t]) \/ exited
         THEN /\ procs' = Kill({h[t]})
              /\ preview_process' = None
              /\ h' = [h EXCEPT ![t] = None]
              /\ Enter(t, "sp_reap", <<>>)
         ELSE /\ Enter(t, "sp_wait2", <<>>)
              /\ UNCHANGED <<procs, preview_process, h>>
    /\ sent' = {}
    /\ UNCHANGED <<video_process, recording, preview_active, running, quiet_mode,
                   was_active, out, pv_err, faulty, diag, vrep, store, call, patched>>

\* wait(timeout=1) after kill(): returns (finally clears the handle) or raises
\* TimeoutExpired, which the outer "except Exception" catches
SpWait1(t) ==
    /\ pc[t] = "sp_wait1"
    /\ \E exited \in BOOLEAN :
         IF ~Alive(h[t]) \/ exited
         THEN /\ procs' = Kill({h[t]})
              /\ preview_process' = None
              /\ Enter(t, "sp_reap", <<>>)
         ELSE /\ Enter(t, "sp_pkill", <<>>)
              /\ UNCHANGED <<procs, preview_process>>
    /\ h' = [h EXCEPT ![t] = None]
    /\ sent' = {}
    /\ UNCHANGED <<video_process, recording, preview_active, running, quiet_mode,
                   was_active, out, pv_err, faulty, diag, vrep, store, call, patched>>

\* except Exception: subprocess.run(['sudo','pkill','-f','raspistill'], timeout=5)
\* (SIGTERM to every match: any subset exits, none when the command fails);
\* finally: self.preview_process = None
SpPkill(t) ==
    /\ pc[t] = "sp_pkill"
    /\ \E S \in SUBSET Matching("raspistill") : procs' = Kill(S)
    /\ sent' = {<<"pkill", "raspistill">>}
    /\ preview_process' = None
    /\ Enter(t, "sp_reap", <<>>)
    /\ UNCHANGED <<video_process, recording, preview_active, running, quiet_mode,
                   was_active, h, out, pv_err, faulty, diag, vrep, store, call, patched>>

\* a stop_preview that ends without the double-check of the process table
SpReap_NoCheck(t) ==
    /\ pc[t] = "sp_reap"
    /\ sent' = {}
    /\ preview_active' = FALSE
    /\ Return(t)
    /\ UNCHANGED <<preview_process, video_process, recording, running, quiet_mode, procs,
                   was_active, h, out, pv_err, faulty, diag, vrep, store, call, patched>>

\* "Double-check no raspistill processes are running": pgrep, pkill -9 if found;
\* then self.preview_active = False and return
SpReap(t) ==
    /\ pc[t] = "sp_reap"
    /\ \E o \in ReapOutcomes :
         /\ procs' = ReapProcs("raspistill", o)
         /\ sent' = ReapSent("raspistill", o)
    /\ preview_active' = FALSE
    /\ Return(t)
    /\ UNCHANGED <<preview_process, video_process, recording, running, quiet_mode,
                   was_active, h, out, pv_err, faulty, diag, vrep, store, call, patched>>

\* -------------------------------------------------------- start_preview
\* a preview command line that never carries the REC overlay
PreviewRole_Plain == IF recording THEN "preview" ELSE "preview"

\* the preview command line: the REC overlay is added if self.recording
PreviewRole == IF recording THEN "preview_rec" ELSE "preview"

\* "except Exception" of start_preview: if not self.quiet_mode: self.safe_print(error)
PreviewError ==
    IF ~quiet_mode THEN SafePrint(Report("preview_error")) ELSE Report("preview_error")

\* a start_preview that marks the preview active before it spawns
PvPopen_ActiveFirst(t) ==
    /\ pc[t] = "pv_popen"
    /\ preview_active' = TRUE
    /\ \E ok \in BOOLEAN :
         IF ok /\ FreePids # {}
         THEN /\ procs' = Spawn(PreviewRole)
              /\ preview_process' = NewPid
              /\ UNCHANGED <<pv_err, out>>
         ELSE /\ pv_err' = [pv_err EXCEPT ![t] = TRUE]
              /\ out' = [out EXCEPT ![t] = PreviewError]
              /\ UNCHANGED <<procs, preview_process>>
    /\ sent' = {}
    /\ Return(t)
    /\ UNCHANGED <<video_process, recording, running, quiet_mode, was_active, h, faulty, diag, vrep, store, call, patched>>

\* after self.stop_preview(): Popen(preview_cmd); self.preview_active = True.
\* A failed spawn raises into "except Exception", which only prints.
PvPopen(t) ==
    /\ pc[t] = "pv_popen"
    /\ \E ok \in BOOLEAN :
         IF ok /\ FreePids # {}
         THEN /\ procs' = Spawn(PreviewRole)
              /\ preview_process' = NewPid
              /\ preview_active' = TRUE
              /\ UNCHANGED <<pv_err, out>>
         ELSE /\ pv_err' = [pv_err EXCEPT ![t] = TRUE]
              /\ out' = [out EXCEPT ![t] = PreviewError]
              /\ UNCHANGED <<procs, preview_process, preview_active>>
    /\ sent' = {}
    /\ Return(t)
    /\ UNCHANGED <<video_process, recording, running, quiet_mode, was_active, h, faulty, diag, vrep, store, call, patched>>

\* ----------------------------------------------------------- take_photo
\* how subprocess.run(cmd, timeout=10) can end: the tool exits, the timeout
\* expires (run kills the child and raises TimeoutExpired), the executable is
\* missing (FileNotFoundError), the OS refuses the spawn (another OSError)
PhotoEnds == {"exit", "timeout", "notfound", "oserror"}

\* a take_photo without the os.path.exists check: exit code 0 is a saved photo
PhotoReport_Unverified(how, rc, exists, size) ==
    IF how = "timeout" THEN "timeout"
    ELSE IF how = "notfound" THEN "notfound"
    ELSE IF how = "oserror" THEN "unexpected"
    ELSE IF rc = 0 THEN "saved"
    ELSE "failed"

\* what take_photo reports for one end of the photo tool: the branches of
\* "if result.returncode == 0: if os.path.exists(filename)" and the except clauses
PhotoReport(how, rc, exists, size) ==
    IF how = "timeout" THEN "timeout"
    ELSE IF how = "notfound" THEN "notfound"
    ELSE IF how = "oserror" THEN "unexpected"
    ELSE IF rc = 0 THEN (IF exists THEN "saved" ELSE "verify_failed")
    ELSE "failed"

PhotoOut(how, rc, exists, size) ==
    [kind |-> PhotoReport(how, rc, exists, size), how |-> how,
     rc |-> rc, exists |-> exists, size |-> size, shown |-> FALSE]

\* the report as take_photo prints it (print_formatted, every failure message
\* with a critical marker, "Photo saved" without one); a print that raises in
\* the try block is caught by "except Exception", whose own print raises
\* again, and one that raises in an except clause is caught by nothing:
\* take_photo ends with the exception
TpOutcome(how, rc, exists, size) ==
    LET r == PhotoOut(how, rc, exists, size)
    IN  IF PrintFormattedRaises(r.kind # "saved")
        THEN [r EXCEPT !.kind = "uncaught"]
        ELSE PrintFormatted(r)

\* "if was_active: time.sleep(0.5); self.start_preview()" is the last statement
\* of the try block: it is reached only when no exception was raised
ReachesRestart(how, wasActive) == how = "exit" /\ wasActive

\* the "Taking photo..." messages (before the try block: a print that raises
\* ends take_photo); was_active = self.preview_active; if was_active:
\* self.stop_preview(); then subprocess.run
TpEnter(t) ==
    /\ pc[t] = "tp_enter"
    /\ IF PrintFormattedRaises(FALSE)
       THEN /\ out' = [out EXCEPT ![t] = Report("uncaught")]
            /\ Enter(t, "tp_done", <<>>)
            /\ sent' = {}
            /\ UNCHANGED <<was_active, h>>
       ELSE /\ was_active' = [was_active EXCEPT ![t] = preview_active]
            /\ out' = out
            /\ IF preview_active
               THEN SpBegin(t, <<"tp_run">>, {})
               ELSE /\ Enter(t, "tp_run", <<>>)
                    /\ sent' = {}
                    /\ h' = h
    /\ UNCHANGED <<preview_process, video_process, recording, preview_active, running,
                   quiet_mode, procs, pv_err, faulty, diag, vrep, store, call, patched>>

\* the "Running command" messages, then subprocess.run starts the photo tool;
\* a spawn that fails raises at once
TpRun(t) ==
    /\ pc[t] = "tp_run"
    /\ \E how \in PhotoEnds \ {"timeout"} :
         IF PrintFormattedRaises(FALSE)
         THEN /\ out' = [out EXCEPT ![t] = Report("uncaught")]
              /\ Enter(t, "tp_done", <<>>)
              /\ UNCHANGED <<procs, h>>
         ELSE IF how = "exit" /\ FreePids # {}
         THEN /\ procs' = Spawn("photo")
              /\ h' = [h EXCEPT ![t] = NewPid]
              /\ out' = out
              /\ Enter(t, "tp_wait", <<>>)
         ELSE /\ out' = [out EXCEPT ![t] =
                            TpOutcome(IF how = "exit" THEN "oserror" ELSE how, 0, FALSE, 0)]
              /\ Enter(t, "tp_done", <<>>)
              /\ UNCHANGED <<procs, h>>
    /\ sent' = {}
    /\ UNCHANGED <<preview_process, video_process, recording, preview_active, running,
                   quiet_mode, was_active, pv_err, faulty, diag, vrep, store, call, patched>>

\* subprocess.run returns or raises and the result is reported.  A tool killed
\* by a signal (a reap of another thread) ends with a negative code (-9).
\* Then either time.sleep(0.5) before the restart, or the method returns.
TpWait(t) ==
    /\ pc[t] = "tp_wait"
    /\ \E how \in PhotoEnds \ {"notfound", "oserror"}, rc \in RetCodes, exists \in BOOLEAN, size \in {0, 1} :
         /\ Alive(h[t]) \/ (how = "exit" /\ rc = -9)
         /\ how = "timeout" => rc = 0
         /\ (how = "timeout" \/ rc # 0) => ~exists
         /\ ~exists => size = 0
         /\ out' = [out EXCEPT ![t] = TpOutcome(how, rc, exists, size)]
         /\ Enter(t, IF ReachesRestart(how, was_active[t]) /\ out'[t].kind # "uncaught"
                      THEN "tp_report" ELSE "tp_done", <<>>)
    /\ procs' = Kill({h[t]})
    /\ h' = [h EXCEPT ![t] = None]
    /\ sent' = {}
    /\ UNCHANGED <<preview_process, video_process, recording, preview_active, running,
                   quiet_mode, was_active, pv_err, faulty, diag, vrep, store, call, patched>>

\* time.sleep(0.5) is over: self.start_preview() (the report has been printed)
TpReport(t) ==
    /\ pc[t] = "tp_report"
    /\ SpBegin(t, <<"pv_popen", "tp_done">>, {})
    /\ out' = [out EXCEPT ![t] = Report("restarted")]
    /\ UNCHANGED <<preview_process, video_process, recording, preview_active, running,
                   quiet_mode, procs, was_active, pv_err, faulty, diag, vrep, store, call, patched>>

\* take_photo returns to its caller, or ends with the exception nothing caught;
\* its locals go away
TpDone(t) ==
    /\ pc[t] = "tp_done"
    /\ Return(t)
    /\ was_active' = [was_active EXCEPT ![t] = FALSE]
    /\ out' = [out EXCEPT ![t] = NoOut]
    /\ pv_err' = [pv_err EXCEPT ![t] = FALSE]
    /\ sent' = {}
    /\ UNCHANGED <<preview_process, video_process, recording, preview_active, running,
                   quiet_mode, procs, h, faulty, diag, vrep, store, call, patched>>

\* ------------------------------------------------- start_video_recording
\* a start_video_recording without its guard
AlreadyRecording_Never == FALSE

\* if self.recording: "Already recording!"; return
AlreadyRecording == recording

\* entry of start_video_recording, up to its first blocking call (pgrep)
SvBegin(t, rets) ==
    /\ IF AlreadyRecording
       THEN /\ out' = [out EXCEPT ![t] = SafePrint(Report("AlreadyRecording"))]
            /\ Resume(t, rets)
       ELSE /\ out' = out
            /\ Enter(t, "sv_reap", rets)
    /\ sent' = {}

\* a start_video_recording that leaves the preview running
SvReap_KeepsPreview(t) ==
    /\ pc[t] = "sv_reap"
    /\ \E o \in ReapOutcomes :
         /\ procs' = ReapProcs("raspivid", o)
         /\ sent' = ReapSent("raspivid", o)
    /\ Enter(t, "sv_popen", <<>>)
    /\ UNCHANGED <<preview_process, video_process, recording, preview_active, running,
                   quiet_mode, was_active, h, out, pv_err, faulty, diag, vrep, store, call, patched>>

\* "Check for existing raspivid processes": pgrep, pkill -9 if found; then
\* self.stop_preview()
SvReap(t) ==
    /\ pc[t] = "sv_reap"
    /\ \E o \in ReapOutcomes :
         /\ procs' = ReapProcs("raspivid", o)
         /\ SpBegin(t, <<"sv_popen">>, ReapSent("raspivid", o))
    /\ UNCHANGED <<preview_process, video_process, recording, preview_active, running,
                   quiet_mode, was_active, out, pv_err, faulty, diag, vrep, store, call, patched>>

\* self.video_process = Popen(cmd); time.sleep(0.5); a failed spawn goes to
\* "except Exception": video_process = None, recording = False
SvPopen(t) ==
    /\ pc[t] = "sv_popen"
    /\ \E ok \in BOOLEAN :
         IF ok /\ FreePids # {}
         THEN /\ procs' = Spawn("video")
              /\ video_process' = NewPid
              /\ Enter(t, "sv_poll", <<>>)
              /\ UNCHANGED <<recording, out>>
         ELSE /\ video_process' = None
              /\ recording' = FALSE
              /\ out' = [out EXCEPT ![t] = SafePrint([Report("rec_failed") EXCEPT !.how = "spawn"])]
              /\ Return(t)
              /\ procs' = procs
    /\ sent' = {}
    /\ UNCHANGED <<preview_process, preview_active, running, quiet_mode,
                   was_active, h, pv_err, faulty, diag, vrep, store, call, patched>>

\* a start_video_recording that does not poll the tool it has spawned
SvPoll_Unpolled(t) ==
    /\ pc[t] = "sv_poll"
    /\ \E exited \in BOOLEAN :
         procs' = IF Alive(video_process) /\ ~exited THEN procs ELSE Kill({video_process})
    /\ recording' = TRUE
    /\ out' = [out EXCEPT ![t] = SafePrint(Report("rec_started"))]
    /\ sent' = {}
    /\ Return(t)
    /\ UNCHANGED <<preview_process, video_process, preview_active, running, quiet_mode,
                   was_active, h, pv_err, faulty, diag, vrep, store, call, patched>>

\* if self.video_process.poll() is None: recording = True
\* else: video_process = None; recording = False
SvPoll(t) ==
    /\ pc[t] = "sv_poll"
    /\ \E exited \in BOOLEAN :
         IF Alive(video_process) /\ ~exited
         THEN /\ recording' = TRUE
              /\ out' = [out EXCEPT ![t] = SafePrint(Report("rec_started"))]
              /\ UNCHANGED <<procs, video_process>>
         ELSE /\ procs' = Kill({video_process})
              /\ video_process' = None
              /\ recording' = FALSE
              /\ out' = [out EXCEPT ![t] = SafePrint([Report("rec_failed") EXCEPT !.how = "exited"])]
    /\ sent' = {}
    /\ Return(t)
    /\ UNCHANGED <<preview_process, preview_active, running, quiet_mode,
                   was_active, h, pv_err, faulty, diag, vrep, store, call, patched>>

\* -------------------------------------------------- stop_video_recording
\* a stop_video_recording without its guard
NotRecording_Never == FALSE

\* if not self.recording or not self.video_process: "Not currently recording!"; return
NotRecording == ~recording \/ video_process = None

\* an error handler of stop_video_recording that prints and keeps the handle
XvRaised_KeepsHandle(t) ==
    /\ UNCHANGED <<video_process, recording>>
    /\ out' = [out EXCEPT ![t] = GlobalPrint(Report("rec_stop_error"), TRUE)]
    /\ sent' = {}

\* "except Exception" of stop_video_recording, up to its blocking call:
\* the error is printed; video_process = None; recording = False; then pkill -9
XvRaised(t) ==
    /\ video_process' = None
    /\ recording' = FALSE
    /\ out' = [out EXCEPT ![t] = GlobalPrint(Report("rec_stop_error"), TRUE)]
    /\ sent' = {}

\* entry of stop_video_recording, up to its first blocking call:
\* self.video_process.terminate(); wait(timeout=5).  An error raised by
\* terminate() goes to "except Exception".
XvBegin(t, rets) ==
    IF NotRecording
    THEN /\ out' = [out EXCEPT ![t] = SafePrint(Report("NotRecording"))]
         /\ sent' = {}
         /\ Resume(t, rets)
         /\ UNCHANGED <<video_process, recording>>
    ELSE \E raised \in BOOLEAN :
           IF raised
           THEN /\ XvRaised(t)
                /\ Enter(t, "xv_except", rets)
           ELSE /\ out' = out
                /\ sent' = Signal("term", video_process)
                /\ Enter(t, "xv_wait5", rets)
                /\ UNCHANGED <<video_process, recording>>

\* wait(timeout=5) returns, or TimeoutExpired: self.video_process.kill(); wait(timeout=2);
\* an error raised by kill() goes to "except Exception"
XvWait5(t) ==
    /\ pc[t] = "xv_wait5"
    /\ \E exited \in BOOLEAN :
         IF ~Alive(video_process) \/ exited
         THEN /\ procs' = Kill({video_process})
              /\ sent' = {}
              /\ Enter(t, "xv_reap", <<>>)
              /\ UNCHANGED <<video_process, recording, out>>
         ELSE \E raised \in BOOLEAN :
              /\ procs' = procs
              /\ IF raised
                 THEN /\ XvRaised(t)
                      /\ Enter(t, "xv_except", <<>>)
                 ELSE /\ sent' = Signal("kill", video_process)
                      /\ Enter(t, "xv_wait2", <<>>)
                      /\ UNCHANGED <<video_process, recording, out>>
    /\ UNCHANGED <<preview_process, preview_active, running,
                   quiet_mode, was_active, h, pv_err, faulty, diag, vrep, store, call, patched>>

\* wait(timeout=2) returns, or TimeoutExpired: "Video process may still be running"
XvWait2(t) ==
    /\ pc[t] = "xv_wait2"
    /\ \E exited \in BOOLEAN :
         procs' = IF exited THEN Kill({video_process}) ELSE procs
    /\ sent' = {}
    /\ Enter(t, "xv_reap", <<>>)
    /\ UNCHANGED <<preview_process, video_process, recording, preview_active, running,
                   quiet_mode, was_active, h, out, pv_err, faulty, diag, vrep, store, call, patched>>

\* a stop_video_recording that restarts the preview before it clears its fields
XvReap_RestartsFirst(t) ==
    /\ pc[t] = "xv_reap"
    /\ \E o \in ReapOutcomes :
         /\ procs' = ReapProcs("raspivid", o)
         /\ sent' = ReapSent("raspivid", o)
    /\ out' = [out EXCEPT ![t] = SafePrint(Report("rec_stopped"))]
    /\ Enter(t, "xv_sleep", <<>>)
    /\ UNCHANGED <<preview_process, video_process, recording, preview_active, running,
                   quiet_mode, was_active, h, pv_err, faulty, diag, vrep, store, call, patched>>

\* a stop_video_recording that clears the handle and leaves recording set
XvReap_KeepsRecording(t) ==
    /\ pc[t] = "xv_reap"
    /\ \E o \in ReapOutcomes :
         /\ procs' = ReapProcs("raspivid", o)
         /\ sent' = ReapSent("raspivid", o)
    /\ video_process' = None
    /\ out' = [out EXCEPT ![t] = SafePrint(Report("rec_stopped"))]
    /\ Enter(t, "xv_sleep", <<>>)
    /\ UNCHANGED <<preview_process, recording, preview_active, running, quiet_mode,
                   was_active, h, pv_err, faulty, diag, vrep, store, call, patched>>

\* "Clean up any remaining raspivid processes": pgrep, pkill -9 if found;
\* video_process = None; recording = False; time.sleep(1)
XvReap(t) ==
    /\ pc[t] = "xv_reap"
    /\ \E o \in ReapOutcomes :
         /\ procs' = ReapProcs("raspivid", o)
         /\ sent' = ReapSent("raspivid", o)
    /\ video_process' = None
    /\ recording' = FALSE
    /\ out' = [out EXCEPT ![t] = SafePrint(Report("rec_stopped"))]
    /\ Enter(t, "xv_sleep", <<>>)
    /\ UNCHANGED <<preview_process, preview_active, running, quiet_mode,
                   was_active, h, pv_err, faulty, diag, vrep, store, call, patched>>

\* "except Exception", after the fields are cleared: sudo pkill -9 -f raspivid
\* (no pgrep first; a failure of the command is swallowed); then the method
\* returns, without a call of start_preview
XvExcept(t) ==
    /\ pc[t] = "xv_except"
    /\ \E o \in ReapOutcomes :
         procs' = IF o = "ok" THEN Kill(Matching("raspivid")) ELSE procs
    /\ sent' = {<<"pkill9", "raspivid">>}
    /\ Return(t)
    /\ UNCHANGED <<preview_process, video_process, recording, preview_active, running,
                   quiet_mode, was_active, h, out, pv_err, faulty, diag, vrep, store, call, patched>>

\* time.sleep(1) is over: self.start_preview() (the report has been printed)
XvSleep(t) ==
    /\ pc[t] = "xv_sleep"
    /\ SpBegin(t, <<"pv_popen">>, {})
    /\ out' = [out EXCEPT ![t] = NoOut]
    /\ UNCHANGED <<preview_process, video_process, recording, preview_active, running,
                   quiet_mode, procs, was_active, pv_err, faulty, diag, vrep, store, call, patched>>

\* ------------------------------------------------ main() and run(): startup
\* main(): the round of the startup loop set processes_killed = True (pgrep
\* found the tool and the pkill returned)
ProcessesKilled(tool, o) == o = "ok" /\ ReapFound(tool)

\* a main() that starts the preview before it has reaped
BootStill_PreviewFirst ==
    /\ pc[Main] = "boot_still"
    /\ procs' = Spawn(PreviewRole)
    /\ preview_process' = NewPid
    /\ preview_active' = TRUE
    /\ sent' = {}
    /\ Enter(Main, "boot_vid", <<>>)
    /\ UNCHANGED <<video_process, recording, running, quiet_mode, was_active, h, out,
                   pv_err, faulty, diag, vrep, store, call, patched>>

\* main(): "Checking for existing camera processes": reap raspistill, then raspivid
BootStill ==
    /\ pc[Main] = "boot_still"
    /\ \E o \in ReapOutcomes :
         /\ procs' = ReapProcs("raspistill", o)
         /\ sent' = ReapSent("raspistill", o)
         /\ out' = [out EXCEPT ![Main] = IF ProcessesKilled("raspistill", o)
                                         THEN GlobalPrint(Report("boot_found"), TRUE)
                                         ELSE @]
    /\ Enter(Main, "boot_vid", <<>>)
    /\ UNCHANGED <<preview_process, video_process, recording, preview_active, running,
                   quiet_mode, was_active, h, pv_err, faulty, diag, vrep, store, call, patched>>

\* the second round of the loop, then: if processes_killed: "Cleaned up existing
\* camera processes", sleep(2)   else: "No existing camera processes found"
BootVid ==
    /\ pc[Main] = "boot_vid"
    /\ \E o \in ReapOutcomes :
         /\ procs' = ReapProcs("raspivid", o)
         /\ sent' = ReapSent("raspivid", o)
         /\ out' = [out EXCEPT ![Main] =
                       IF out[Main].kind = "boot_found" \/ ProcessesKilled("raspivid", o)
                       THEN GlobalPrint(Report("boot_cleaned"), FALSE)
                       ELSE GlobalPrint(Report("boot_none"), FALSE)]
    /\ Enter(Main, "construct", <<>>)
    /\ UNCHANGED <<preview_process, video_process, recording, preview_active, running,
                   quiet_mode, was_active, h, pv_err, faulty, diag, vrep, store, call, patched>>

\* main(): "which raspistill" fails -> sys.exit(1); RPiCameraHeadless(): makedirs
\* fails -> sys.exit(1); else run(): self.start_preview()
Construct ==
    /\ pc[Main] = "construct"
    /\ \E r \in {"ok", "no_tool", "no_dirs"} :
         IF r = "ok"
         THEN /\ SpBegin(Main, <<"pv_popen", "run_ready">>, {})
              /\ out' = [out EXCEPT ![Main] = NoOut]
         ELSE /\ Enter(Main, "exit1", <<>>)
              /\ out' = [out EXCEPT ![Main] = GlobalPrint(Report(r), TRUE)]
              /\ sent' = {}
              /\ h' = h
    /\ call' = "start_preview"
    /\ UNCHANGED <<preview_process, video_process, recording, preview_active, running,
                   quiet_mode, procs, was_active, pv_err, faulty, diag, vrep, store, patched>>

\* run(): show_status; self.quiet_mode = True; setup_terminal(), which replaces
\* builtins.print if the terminal can be set raw; enter the key loop
RunReady ==
    /\ pc[Main] = "run_ready"
    /\ quiet_mode' = TRUE
    /\ pv_err' = [pv_err EXCEPT ![Main] = FALSE]
    /\ Enter(Main, "idle", <<>>)
    /\ sent' = {}
    /\ call' = "none"
    /\ patched' \in BOOLEAN
    /\ UNCHANGED <<preview_process, video_process, recording, preview_active, running,
                   procs, was_active, h, out, faulty, diag, vrep, store>>

\* ------------------------------------------------------ process_keypress
\* a print_formatted of process_keypress raises: the exception leaves the key
\* loop and run(), cleanup() is not called, main() reports it and returns
Crash ==
    /\ Uncaught(Main)
    /\ out' = [out EXCEPT ![Main] = GlobalPrint(Report("crashed"), TRUE)]

IdleWorkers == {w \in Workers : pc[w] = "off"}

\* key == 'space': threading.Thread(target=self.take_photo).start()
KeySpace ==
    /\ pc[Main] = "idle"
    /\ IdleWorkers # {}
    /\ LET w == CHOOSE x \in IdleWorkers : \A y \in IdleWorkers : x <= y
       IN /\ pc' = [pc EXCEPT ![w] = "tp_enter", ![Main] = "kp_end"]
          /\ stack' = [stack EXCEPT ![w] = <<"off">>]
    /\ sent' = {}
    /\ UNCHANGED <<preview_process, video_process, recording, preview_active, running,
                   quiet_mode, procs, was_active, h, out, pv_err, faulty, diag, vrep, store, call, patched>>

\* key == 'v': stop_video_recording() if self.recording else start_video_recording()
KeyV ==
    /\ pc[Main] = "idle"
    /\ IF recording
       THEN XvBegin(Main, <<"kp_end">>)
       ELSE SvBegin(Main, <<"kp_end">>) /\ UNCHANGED <<video_process, recording>>
    /\ call' = (IF recording THEN "stop_video_recording" ELSE "start_video_recording")
    /\ UNCHANGED <<preview_process, preview_active, running,
                   quiet_mode, procs, was_active, h, pv_err, faulty, diag, vrep, store, patched>>

\* key == 'p': if self.preview_active: stop_preview(); quiet_mode = False
\*             else: quiet_mode = True; start_preview()
KeyP ==
    /\ pc[Main] = "idle"
    /\ IF preview_active
       THEN /\ SpBegin(Main, <<"p_off", "kp_end">>, {})
            /\ quiet_mode' = quiet_mode
       ELSE /\ SpBegin(Main, <<"pv_popen", "kp_end">>, {})
            /\ quiet_mode' = TRUE
    /\ call' = (IF preview_active THEN "stop_preview" ELSE "start_preview")
    /\ UNCHANGED <<preview_process, video_process, recording, preview_active, running,
                   procs, was_active, out, pv_err, faulty, diag, vrep, store, patched>>

\* stop_preview() has returned: self.quiet_mode = False; print_formatted("Preview stopped")
KeyPOff ==
    /\ pc[Main] = "p_off"
    /\ quiet_mode' = FALSE
    /\ IF patched
       THEN Crash
       ELSE Return(Main) /\ out' = out
    /\ sent' = {}
    /\ UNCHANGED <<preview_process, video_process, recording, preview_active, running,
                   procs, was_active, h, pv_err, faulty, diag, vrep, store, call, patched>>

\* key == 'h': quiet_mode = False; print_formatted("Opening shell...");
\* open_shell(): self.stop_preview()
KeyH ==
    /\ pc[Main] = "idle"
    /\ quiet_mode' = FALSE
    /\ IF patched
       THEN Crash /\ sent' = {} /\ h' = h
       ELSE SpBegin(Main, <<"sh_chk", "kp_end">>, {}) /\ out' = out
    /\ call' = "open_shell"
    /\ UNCHANGED <<preview_process, video_process, recording, preview_active, running,
                   procs, was_active, pv_err, faulty, diag, vrep, store, patched>>

\* open_shell(): if self.recording: self.stop_video_recording(); then run /bin/bash
ShChk ==
    /\ pc[Main] = "sh_chk"
    /\ IF recording
       THEN XvBegin(Main, <<"sh_bash">>)
       ELSE /\ Enter(Main, "sh_bash", <<>>)
            /\ sent' = {}
            /\ UNCHANGED <<out, video_process, recording>>
    /\ UNCHANGED <<preview_process, preview_active, running,
                   quiet_mode, procs, was_active, h, pv_err, faulty, diag, vrep, store, call, patched>>

\* the shell exits: setup_terminal() (which replaces builtins.print if the
\* terminal can be set raw); self.start_preview()
ShBash ==
    /\ pc[Main] = "sh_bash"
    /\ SpBegin(Main, <<"pv_popen", "sh_ret">>, {})
    /\ \E ok \in BOOLEAN : patched' = (patched \/ ok)
    /\ UNCHANGED <<preview_process, video_process, recording, preview_active, running,
                   quiet_mode, procs, was_active, out, pv_err, faulty, diag, vrep, store, call>>

\* open_shell(): show_status(); self.quiet_mode = True
ShRet ==
    /\ pc[Main] = "sh_ret"
    /\ quiet_mode' = TRUE
    /\ Return(Main)
    /\ sent' = {}
    /\ UNCHANGED <<preview_process, video_process, recording, preview_active, running,
                   procs, was_active, h, out, pv_err, faulty, diag, vrep, store, call, patched>>

\* key == 'q' or 'esc': quiet_mode = False; print_formatted("Quitting..."); self.running = False
KeyQ ==
    /\ pc[Main] = "idle"
    /\ quiet_mode' = FALSE
    /\ IF patched
       THEN Crash /\ running' = running
       ELSE /\ running' = FALSE
            /\ Enter(Main, "kp_end", <<>>)
            /\ out' = out
    /\ sent' = {}
    /\ UNCHANGED <<preview_process, video_process, recording, preview_active,
                   procs, was_active, h, pv_err, faulty, diag, vrep, store, call, patched>>

\* show_prompt(); back in run(): "while self.running", else restore_terminal(); cleanup()
KpEnd ==
    /\ pc[Main] = "kp_end"
    /\ Enter(Main, IF running THEN "idle" ELSE "cl_enter", <<>>)
    /\ out' = [out EXCEPT ![Main] = NoOut]
    /\ pv_err' = [pv_err EXCEPT ![Main] = FALSE]
    /\ sent' = {}
    /\ call' = (IF running THEN "none" ELSE "cleanup")
    /\ UNCHANGED <<preview_process, video_process, recording, preview_active, running,
                   quiet_mode, procs, was_active, h, faulty, diag, vrep, store, patched>>

\* -------------------------------------------------------------- cleanup
\* print_formatted("Cleaning up...", force_output=True)
\* if self.recording: self.stop_video_recording()
\* self.stop_preview()
\* An exception of a print leaves cleanup() and run() and is reported by main().
ClEnter ==
    /\ pc[Main] = "cl_enter"
    /\ IF PrintFormattedRaises(FALSE)
       THEN /\ Crash
            /\ sent' = {}
            /\ UNCHANGED <<h, video_process, recording>>
       ELSE IF recording
       THEN /\ XvBegin(Main, <<"cl_sp">>)
            /\ h' = h
       ELSE /\ SpBegin(Main, <<"cl_still">>, {})
            /\ UNCHANGED <<out, video_process, recording>>
    /\ UNCHANGED <<preview_process, preview_active, running,
                   quiet_mode, procs, was_active, pv_err, faulty, diag, vrep, store, call, patched>>

\* a cleanup that does not stop the preview after stop_video_recording
ClSp_SkipsPreview ==
    /\ pc[Main] = "cl_sp"
    /\ Enter(Main, "cl_still", <<>>)
    /\ sent' = {}
    /\ UNCHANGED <<preview_process, video_process, recording, preview_active, running,
                   quiet_mode, procs, was_active, h, out, pv_err, faulty, diag, vrep, store, call, patched>>

\* self.stop_preview(), after stop_video_recording returned
ClSp ==
    /\ pc[Main] = "cl_sp"
    /\ SpBegin(Main, <<"cl_still">>, {})
    /\ UNCHANGED <<preview_process, video_process, recording, preview_active, running,
                   quiet_mode, procs, was_active, out, pv_err, faulty, diag, vrep, store, call, patched>>

\* a cleanup whose reap is not inside try/except
ClReapRaises_Unguarded(o) == o = "fail"

\* the reap of one tool name raises out of cleanup(): the failure of pgrep or
\* pkill is caught by "except Exception", whose report is a print_formatted
\* of a "Warning" message
ClReapRaises(o) == o = "fail" /\ PrintFormattedRaises(TRUE)

\* print_formatted("Ensuring all camera processes are stopped...", force_output=True);
\* for cmd in ['raspistill', 'raspivid']: pgrep, pkill -9 if found (each in its own try)
ClStill ==
    /\ pc[Main] = "cl_still"
    /\ \E o \in ReapOutcomes :
         IF PrintFormattedRaises(TRUE) \/ ClReapRaises(o)
         THEN /\ Crash
              /\ sent' = {}
              /\ procs' = procs
         ELSE /\ procs' = ReapProcs("raspistill", o)
              /\ sent' = ReapSent("raspistill", o)
              /\ Enter(Main, "cl_vid", <<>>)
              /\ out' = out
    /\ UNCHANGED <<preview_process, video_process, recording, preview_active, running,
                   quiet_mode, was_active, h, pv_err, faulty, diag, vrep, store, call, patched>>

\* the reap of raspivid; then restore_terminal(), "Cleanup complete" and the
\* final shell
ClVid ==
    /\ pc[Main] = "cl_vid"
    /\ \E o \in ReapOutcomes :
         IF ClReapRaises(o)
         THEN /\ Crash
              /\ sent' = {}
              /\ procs' = procs
         ELSE /\ procs' = ReapProcs("raspivid", o)
              /\ sent' = ReapSent("raspivid", o)
              /\ Enter(Main, "cl_done", <<>>)
              /\ out' = [out EXCEPT ![Main] = GlobalPrint(Report("cleanup_complete"), FALSE)]
    /\ call' = "none"
    /\ UNCHANGED <<preview_process, video_process, recording, preview_active, running,
                   quiet_mode, was_active, h, pv_err, faulty, diag, vrep, store, patched>>

\* the steps of cleanup()
CleanupStep == ClEnter \/ ClSp \/ ClStill \/ ClVid

\* ------------------------------------------------------- specifications
\* the steps of the methods, run by thread t
CoreStep(t) ==
    \/ SpWait2(t) \/ SpWait1(t) \/ SpPkill(t) \/ SpReap(t)
    \/ PvPopen(t)
    \/ TpEnter(t) \/ TpRun(t) \/ TpWait(t) \/ TpReport(t) \/ TpDone(t)
    \/ SvReap(t) \/ SvPopen(t) \/ SvPoll(t)
    \/ XvWait5(t) \/ XvWait2(t) \/ XvReap(t) \/ XvSleep(t) \/ XvExcept(t)

AppStep ==
    \/ BootStill \/ BootVid \/ Construct \/ RunReady
    \/ KeySpace \/ KeyV \/ KeyP \/ KeyPOff \/ KeyH \/ ShChk \/ ShBash \/ ShRet \/ KeyQ \/ KpEnd
    \/ CleanupStep

NoProcs == [p \in Pid |-> "none"]

\* a camera process left over by an earlier run may exist when main() starts
StaleTables == {NoProcs, [NoProcs EXCEPT ![1] = "stale_still"], [NoProcs EXCEPT ![1] = "stale_vid"]}

\* ---- take_photo: the diagnosis of a non-zero exit code ----

\* exit codes the photo tool can end with other than 0: the four the code names,
\* other positive codes, and a negative one (ended by a signal)
ExitCodes == {-9, 1, 2, 64, 70, 127, 130, 255}

\* the substrings of the lower-cased stderr text the code looks for
StderrWords == {"not found", "permission", "busy", "timeout"}

\* "Specific error code handling": one if/elif chain over the exit code
CodeCategory(rc) ==
    IF rc = 64 THEN {"hardware_init"}
    ELSE IF rc = 1 THEN {"general"}
    ELSE IF rc = 70 THEN {"software"}
    ELSE IF rc = 130 THEN {"interrupted"}
    ELSE {}

\* every hint whose substring occurs in stderr
StderrHint_EveryMatch(words) ==
    {IF w = "not found" THEN "install_tools"
     ELSE IF w = "permission" THEN "permissions"
     ELSE IF w = "busy" THEN "camera_busy"
     ELSE "hardware_timeout" : w \in words}

\* a second if/elif chain, over the substrings of stderr, whatever the exit code
StderrHint(words) ==
    IF "not found" \in words THEN {"install_tools"}
    ELSE IF "permission" \in words THEN {"permissions"}
    ELSE IF "busy" \in words THEN {"camera_busy"}
    ELSE IF "timeout" \in words THEN {"hardware_timeout"}
    ELSE {}

\* what the failure branch prints: the generic line with the code, then the
\* category of the code, then the hint of stderr
FailureDiag(rc, words) ==
    [rc |-> rc, words |-> words, reported |-> rc,
     code_category |-> CodeCategory(rc), hint |-> StderrHint(words)]

NoDiag == [rc |-> 0, words |-> {}, reported |-> 0, code_category |-> {}, hint |-> {}]

\* ---- stop_video_recording: the file reported as the saved recording ----

MaxVideoFiles == 4  \* .h264 files the videos directory can hold
MaxCtime == 3       \* creation times (os.path.getctime) that are told apart

\* the file names of the videos directory; the first is the target file the
\* recording's start_video_recording chose (-o filename)
VideoFiles == 1..MaxVideoFiles

TargetFile == 1

\* a directory: file name -> its time stamp, 0 for a file that does not exist
VideoDirs == [VideoFiles -> 0..MaxCtime]

\* glob.glob(f"{self.videos_dir}/*.h264")
Globbed(dir) == {f \in DOMAIN dir : dir[f] # 0}

\* max(videos, key=os.path.getctime): a file of the directory with the greatest
\* creation time (the first of them in the order glob returns, which is arbitrary)
LatestVideos(dir) == {f \in Globbed(dir) : \A g \in Globbed(dir) : dir[g] <= dir[f]}

\* "Check for video file and report size": the file reported as "Video saved",
\* None with "No video files found in directory"
VideoReport(dir, latest) ==
    [ran |-> TRUE, dir |-> dir, reported |-> IF Globbed(dir) = {} THEN None ELSE latest]

NoVideoReport == [ran |-> FALSE, dir |-> [f \in VideoFiles |-> 0], reported |-> None]

\* ---- cleanup_old_files ----

MaxStored == 3      \* files of one kind (photos or videos) the directory can hold
MaxMtime == 2       \* modification times (os.path.getmtime) that are told apart
MaxKeep == 3        \* largest max_photos / max_videos passed

StoredFiles == 1..MaxStored

StoreDirs == [StoredFiles -> 0..MaxMtime]

\* the sequences over S without repetition
RECURSIVE Orders(_)
Orders(S) ==
    IF S = {} THEN {<<>>}
    ELSE UNION {{<<f>> \o o : o \in Orders(S \ {f})} : f \in S}

\* files.sort(key=os.path.getmtime): the files oldest first; files of equal
\* time stay in the order glob returned them, which is arbitrary
SortedByMtime(dir) ==
    {o \in Orders(Globbed(dir)) :
        \A i, j \in 1..Len(o) : i < j => dir[o[i]] <= dir[o[j]]}

\* Python's files[:-n] for n >= 0: the stop index -n counts from the end
\* when it is negative and is the start of the list when it is 0
SliceBeforeLast(files, n) ==
    LET stop == IF n = 0 THEN 0
                ELSE IF Len(files) - n < 0 THEN 0
                ELSE Len(files) - n
    IN  SubSeq(files, 1, stop)

\* the files one pass of cleanup_old_files hands to os.remove:
\* if len(files) > max: files.sort(...); to_remove = files[:-max]
ToRemove(dir, sorted, max) ==
    IF Cardinality(Globbed(dir)) > max
    THEN {sorted[i] : i \in 1..Len(SliceBeforeLast(sorted, max))}
    ELSE {}

\* the directory after the files in S were removed
Removed(dir, S) == [f \in DOMAIN dir |-> IF f \in S THEN 0 ELSE dir[f]]

\* one pass (photos, or videos): the directory before, the limit, the files
\* handed to os.remove, those whose os.remove raised, the directory after
CleanedKind(dir, sorted, max, failed) ==
    [before |-> dir, max |-> max, to_remove |-> ToRemove(dir, sorted, max),
     failed |-> failed,
     after |-> Removed(dir, ToRemove(dir, sorted, max) \ failed)]

\* every pass there is: any directory, any limit, any order glob returns files
\* of equal time in, any removals that fail
CleanedKinds ==
    UNION {UNION {{CleanedKind(dir, sorted, max, failed) :
                      failed \in SUBSET ToRemove(dir, sorted, max)} :
                  sorted \in SortedByMtime(dir)} :
           dir \in StoreDirs, max \in 0..MaxKeep}

NoStore ==
    LET none == [before |-> [f \in StoredFiles |-> 0], max |-> 0, to_remove |-> {},
                 failed |-> {}, after |-> [f \in StoredFiles |-> 0]]
    IN  [ran |-> FALSE, photos |-> none, videos |-> none]

\* RPiCameraHeadless.__init__: the state variables
InitFields ==
    /\ preview_process = None
    /\ video_process = None
    /\ recording = FALSE
    /\ preview_active = FALSE
    /\ running = TRUE
    /\ quiet_mode = FALSE
    /\ stack = [t \in Threads |-> <<>>]
    /\ was_active = [t \in Threads |-> FALSE]
    /\ h = [t \in Threads |-> None]
    /\ out = [t \in Threads |-> NoOut]
    /\ pv_err = [t \in Threads |-> FALSE]
    /\ sent = {}
    /\ call = "none"
    /\ patched = FALSE
    /\ diag = NoDiag
    /\ vrep = NoVideoReport
    /\ store = NoStore

\* the application: main() starts, the key loop runs, cleanup() ends it
Init ==
    /\ InitFields
    /\ procs \in StaleTables
    /\ faulty = FALSE
    /\ pc = [t \in Threads |-> IF t = Main THEN "boot_still" ELSE "off"]

Next == (\E t \in Threads : CoreStep(t)) \/ AppStep

Spec == Init /\ [][Next]_vars

\* the object's methods called one after the other on a constructed object,
\* by one thread, in any order
Methods == {"stop_preview", "start_preview", "take_photo",
            "start_video_recording", "stop_video_recording", "cleanup"}

ApiCall ==
    /\ pc[Main] = "idle"
    /\ \E m \in Methods :
         /\ call' = m
         /\ CASE m = "stop_preview" ->
                   SpBegin(Main, <<"api_end">>, {}) /\ UNCHANGED <<out, video_process, recording>>
              [] m = "start_preview" ->
                   SpBegin(Main, <<"pv_popen", "api_end">>, {})
                   /\ UNCHANGED <<out, video_process, recording>>
              [] m = "take_photo" ->
                   Enter(Main, "tp_enter", <<"api_end">>) /\ sent' = {}
                   /\ UNCHANGED <<h, out, video_process, recording>>
              [] m = "start_video_recording" ->
                   SvBegin(Main, <<"api_end">>) /\ UNCHANGED <<h, video_process, recording>>
              [] m = "stop_video_recording" ->
                   XvBegin(Main, <<"api_end">>) /\ h' = h
              [] m = "cleanup" ->
                   Enter(Main, "cl_enter", <<>>) /\ sent' = {}
                   /\ UNCHANGED <<h, out, video_process, recording>>
    /\ UNCHANGED <<preview_process, preview_active, running,
                   quiet_mode, procs, was_active, pv_err, faulty, diag, vrep, store, patched>>

ApiEnd ==
    /\ pc[Main] = "api_end"
    /\ Enter(Main, "idle", <<>>)
    /\ out' = [out EXCEPT ![Main] = NoOut]
    /\ pv_err' = [pv_err EXCEPT ![Main] = FALSE]
    /\ sent' = {}
    /\ call' = "none"
    /\ UNCHANGED <<preview_process, video_process, recording, preview_active, running,
                   quiet_mode, procs, was_active, h, faulty, diag, vrep, store, patched>>

InitApi ==
    /\ InitFields
    /\ procs \in StaleTables
    /\ faulty \in BOOLEAN
    /\ pc = [t \in Threads |-> IF t = Main THEN "idle" ELSE "off"]

NextApi == CoreStep(Main) \/ ApiCall \/ ApiEnd \/ CleanupStep

SpecApi == InitApi /\ [][NextApi]_vars

\* the calling thread keeps running: every blocking call of the methods returns
\* or runs into its timeout (wait(timeout=...), subprocess.run(..., timeout=...),
\* time.sleep; pgrep ends by itself)
SpecApiFair == SpecApi /\ WF_vars(CoreStep(Main))

\* the failure branch of take_photo applied to an exit code and a stderr text
DiagRun ==
    /\ \E rc \in ExitCodes, words \in SUBSET StderrWords : diag' = FailureDiag(rc, words)
    /\ UNCHANGED <<preview_process, video_process, recording, preview_active, running,
                   quiet_mode, procs, pc, stack, was_active, h, out, pv_err, sent,
                   faulty, patched, vrep, store, call>>

InitDiag ==
    /\ InitFields
    /\ procs = NoProcs
    /\ faulty = FALSE
    /\ pc = [t \in Threads |-> IF t = Main THEN "idle" ELSE "off"]

NextDiag == DiagRun

SpecDiag == InitDiag /\ [][NextDiag]_vars

\* stop_video_recording's file check applied once to a videos directory: the
\* recording's target file exists or not, with any time stamp, next to any
\* other .h264 files
VideoFileRun ==
    /\ ~vrep.ran
    /\ \E dir \in VideoDirs :
         \E latest \in (IF Globbed(dir) = {} THEN {None} ELSE LatestVideos(dir)) :
            vrep' = VideoReport(dir, latest)
    /\ UNCHANGED <<preview_process, video_process, recording, preview_active, running,
                   quiet_mode, procs, pc, stack, was_active, h, out, pv_err, sent,
                   faulty, patched, diag, store, call>>

NextVideoFile == VideoFileRun

SpecVideoFile == InitDiag /\ [][NextVideoFile]_vars

\* cleanup_old_files(max_photos, max_videos) applied once to a photos and a
\* videos directory
CleanupOldFilesRun ==
    /\ ~store.ran
    /\ \E photos \in CleanedKinds, videos \in CleanedKinds :
         store' = [ran |-> TRUE, photos |-> photos, videos |-> videos]
    /\ UNCHANGED <<preview_process, video_process, recording, preview_active, running,
                   quiet_mode, procs, pc, stack, was_active, h, out, pv_err, sent,
                   faulty, patched, diag, vrep, call>>

NextCleanupOldFiles == CleanupOldFilesRun

SpecCleanupOldFiles == InitDiag /\ [][NextCleanupOldFiles]_vars

\* --------------------------------------------------------------- claims
\* C1: when take_photo returns, preview_active equals its value at the call
\* (was_active), whatever the outcome of the capture, provided the preview
\* spawn of the restart did not fail.
C1_TakePhotoRestoresPreview ==
    \A t \in Threads :
        (pc[t] = "tp_done" /\ ~pv_err[t]) => preview_active = was_active[t]

\* C2: a capture that runs into the 10 s timeout is reported as a timeout, and
\* a preview that was active at the call is active again when take_photo returns.
C2_TimeoutReportedAndPreviewRestarted ==
    \A t \in Threads :
        (pc[t] = "tp_done" /\ out[t].how = "timeout") =>
            /\ out[t].kind = "timeout"
            /\ was_active[t] => preview_active

\* C3: in every reachable state of the application at most one preview process
\* and at most one video process it has spawned is alive.
C3_AtMostOnePreviewAndOneVideo ==
    /\ Cardinality(Previews) <= 1
    /\ Cardinality(Videos) <= 1

\* C4: never two photo tools alive at once, and never a photo tool alive while
\* a video recording process is alive.
C4_OneCaptureInFlight ==
    /\ Cardinality(Photos) <= 1
    /\ Photos # {} => Videos = {}

\* C5: once cleanup() has finished its reap of raspistill and raspivid, no camera
\* process spawned by the application is alive, in that state and in every later one.
C5_NothingAliveAfterCleanup ==
    pc[Main] = "cl_done" => Previews \cup Videos \cup Photos = {}

\* C6: start_video_recording called while recording reports AlreadyRecording and
\* returns at once: no process is spawned or signalled, and recording,
\* video_process, preview_process and preview_active keep their values.
C6_SecondStartRefused ==
    [][(pc[Main] = "idle" /\ call' = "start_video_recording" /\ recording) =>
           /\ out'[Main].kind = "AlreadyRecording"
           /\ pc'[Main] = "api_end"
           /\ sent' = {}
           /\ UNCHANGED <<procs, recording, video_process, preview_process, preview_active>>
      ]_vars

C6_Witness ==
    /\ pc[Main] = "api_end"
    /\ call = "start_video_recording"
    /\ out[Main].kind = "AlreadyRecording"
    /\ recording
    /\ Alive(video_process)
    /\ Cardinality(Videos) = 1

\* C7: stop_video_recording called while not recording reports NotRecording and
\* returns at once: no signal, no kill command, no preview restart, and
\* recording, video_process, preview_process and preview_active keep their values.
C7_StopWithoutRecordingIsNoOp ==
    [][(pc[Main] = "idle" /\ call' = "stop_video_recording" /\ ~recording) =>
           /\ out'[Main].kind = "NotRecording"
           /\ pc'[Main] = "api_end"
           /\ sent' = {}
           /\ UNCHANGED <<procs, recording, video_process, preview_process, preview_active>>
      ]_vars

C7_Witness ==
    /\ pc[Main] = "api_end"
    /\ call = "stop_video_recording"
    /\ out[Main].kind = "NotRecording"
    /\ ~recording
    /\ preview_active
    /\ Alive(preview_process)

C9_EmptyFileIsNotSaved ==
    \A t \in Threads :
        (out[t].how = "exit" /\ out[t].rc = 0 /\ out[t].exists /\ out[t].size = 0) =>
            out[t].kind # "saved"

\* C10: stop_preview called with no preview process held and the preview stopped
\* sends no signal and runs no kill command, and changes neither the process
\* table nor the object's fields (so a second stop in a row does what one does).
C10_StopWithoutHandleIsNoOp ==
    [][(/\ call' = "stop_preview"
        /\ pc[Main] \in {"idle", "sp_reap"}
        /\ ~HoldsPreview /\ ~preview_active) =>
           /\ sent' = {}
           /\ UNCHANGED <<procs, preview_process, preview_active, video_process, recording>>
      ]_vars

\* C10, amended: stop_preview called with no preview process held and the
\* preview stopped sends nothing through a handle (no terminate, no kill, no
\* pkill -f), but still runs its reap: pkill -9 -f raspistill goes out only if
\* a raspistill process is alive, and does go out, ending every raspistill, when
\* one is and the commands work.  Only raspistill processes leave the process
\* table; preview_process, preview_active, video_process and recording keep
\* their values.  With no raspistill alive the call changes nothing.
C10_StopWithoutHandleOnlyReaps ==
    [][(/\ call' = "stop_preview"
        /\ pc[Main] \in {"idle", "sp_reap"}
        /\ ~HoldsPreview /\ ~preview_active) =>
           /\ pc'[Main] = (IF pc[Main] = "idle" THEN "sp_reap" ELSE "api_end")
           /\ sent' \subseteq {<<"pkill9", "raspistill">>}
           /\ sent' # {} => (pc[Main] = "sp_reap" /\ Matching("raspistill") # {})
           /\ (pc[Main] = "sp_reap" /\ ~faulty /\ Matching("raspistill") # {}) =>
                  /\ sent' = {<<"pkill9", "raspistill">>}
                  /\ \A p \in Pid : Tool(procs'[p]) # "raspistill"
           /\ \A p \in Pid :
                  procs'[p] # procs[p] => (Tool(procs[p]) = "raspistill" /\ procs'[p] = "none")
           /\ UNCHANGED <<preview_process, preview_active, video_process, recording>>
      ]_vars

C10_Witness ==
    /\ call = "stop_preview"
    /\ pc[Main] = "sp_reap"
    /\ ~HoldsPreview /\ ~preview_active
    /\ sent = {}
    /\ Matching("raspistill") # {}
    /\ ~faulty

\* C11: every call of stop_preview and of stop_video_recording returns, also
\* when the child ignores the termination signal and is still alive after the
\* kill signal and the wait that follows it.
C11_StopsReturn ==
    (call \in {"stop_preview", "stop_video_recording"} /\ pc[Main] # "api_end")
        ~> (pc[Main] = "api_end")

C11_Witness ==
    /\ pc[Main] = "api_end"
    /\ \/ call = "stop_preview" /\ Previews # {}
       \/ call = "stop_video_recording" /\ out[Main].kind = "rec_stopped" /\ Videos # {}

\* C12: every stop attempt clears the handle.  When stop_preview returns,
\* preview_process is None and preview_active is False; when
\* stop_video_recording, called with an active recording, returns,
\* video_process is None and recording is False: whether the child exited, was
\* killed, outlived the waits, or signalling it raised an error.
C12_StopClearsHandle ==
    pc[Main] = "api_end" =>
        /\ call = "stop_preview" => preview_process = None /\ ~preview_active
        /\ (call = "stop_video_recording" /\ out[Main].kind # "NotRecording")
               => video_process = None /\ ~recording

C12_Witness ==
    /\ pc[Main] = "api_end"
    /\ call = "stop_video_recording"
    /\ out[Main].kind = "rec_stop_error"
    /\ video_process = None
    /\ ~recording

\* C13: while the photo tool spawned by take_photo is running, no preview
\* process spawned by the application is alive, also when the keys p, v, h and
\* space are processed during the capture.
C13_NoPreviewDuringCapture == Photos # {} => Previews = {}

\* C14: while the application is running (outside the startup and the shutdown
\* reap) the photo tool started by take_photo ends only in its own capture
\* (exit or capture timeout): stop_preview, start_preview,
\* start_video_recording and open_shell never terminate it.
C14_PhotoToolEndsOnlyInItsCapture ==
    [][\A w \in Workers :
         (/\ h[w] # None
          /\ procs[h[w]] = "photo"
          /\ procs'[h[w]] # "photo"
          /\ call # "cleanup")
         => (pc[w] = "tp_wait" /\ pc'[w] # "tp_wait")]_vars

\* C15: a reap whose process-table query finds no process of a tool name issues
\* no kill command for that name; at startup with no match for raspistill and
\* none for raspivid, main reports that no existing camera processes were found
\* and kills nothing.
C15_EmptyReapKillsNothing ==
    [][/\ \A t \in Threads :
            /\ (pc[t] \in {"boot_still", "sp_reap", "cl_still"} /\ pc'[t] # pc[t]
                  /\ Matching("raspistill") = {})
                 => <<"pkill9", "raspistill">> \notin sent'
            /\ (pc[t] \in {"boot_vid", "sv_reap", "xv_reap", "cl_vid"} /\ pc'[t] # pc[t]
                  /\ Matching("raspivid") = {})
                 => <<"pkill9", "raspivid">> \notin sent'
       /\ (pc[Main] = "boot_still" /\ pc'[Main] = "boot_vid" /\ Matching("raspistill") = {})
            => (sent' = {} /\ procs' = procs /\ out'[Main].kind = "none")
       /\ (pc[Main] = "boot_vid" /\ pc'[Main] = "construct" /\ out[Main].kind = "none"
             /\ Matching("raspivid") = {})
            => (/\ sent' = {}
                /\ procs' = procs
                /\ out'[Main].kind = "boot_none"
                /\ out'[Main].shown)]_vars

C15_Witness ==
    /\ pc[Main] = "construct"
    /\ out[Main].kind = "boot_none"
    /\ out[Main].shown
    /\ procs = NoProcs
    /\ sent = {}

\* C16: when the spawn of the preview tool fails in start_preview, control
\* returns to the caller without an exception, preview_active stays False and
\* preview_process stays None; and with no preview a take_photo or a
\* start_video_recording that has come to its spawn can still spawn its tool.
C16_PreviewFailureIsContained ==
    [][/\ (pc[Main] = "pv_popen" /\ pv_err'[Main] /\ ~pv_err[Main])
            => (/\ pc'[Main] = Head(stack[Main])
                /\ ~preview_active'
                /\ preview_process' = None
                /\ procs' = procs)
       /\ (preview_process = None /\ ~preview_active /\ FreePids # {})
            => (/\ pc[Main] = "tp_run" => ENABLED (TpRun(Main) /\ Photos' # {})
                /\ pc[Main] = "sv_popen" => ENABLED (SvPopen(Main) /\ Videos' # {}))]_vars

C16_Witness ==
    /\ pc[Main] = "api_end"
    /\ call = "start_preview"
    /\ pv_err[Main]
    /\ preview_process = None
    /\ ~preview_active

\* C17: every failed start is reported to the user whatever the value of
\* quiet_mode: a preview spawn failure in start_preview and a video start
\* failure in start_video_recording (spawn error or immediate exit) each put
\* an error report on the terminal.
C17_FailedStartIsShown ==
    \A t \in Threads : out[t].kind \in {"preview_error", "rec_failed"} => out[t].shown

\* C18: a video tool that has already exited when start_video_recording polls
\* it is a start failure: recording stays False and video_process is reset to
\* None; so a following start_video_recording is not refused as already
\* recording and a following stop_video_recording reports that nothing is
\* being recorded.
C18_ExitedVideoToolIsStartFailure ==
    [][/\ (pc[Main] = "sv_poll" /\ pc'[Main] # "sv_poll" /\ procs'[video_process] = "none")
            => (/\ ~recording'
                /\ video_process' = None
                /\ out'[Main].kind = "rec_failed"
                /\ ~AlreadyRecording'
                /\ NotRecording')
       /\ (pc[Main] = "api_end" /\ call = "start_video_recording"
             /\ out[Main].kind = "rec_failed" /\ out[Main].how = "exited")
            => (pc'[Main] = "idle" /\ ~recording' /\ video_process' = None)
       /\ (pc[Main] = "idle" /\ ~recording /\ video_process = None)
            => (/\ call' = "start_video_recording" => out'[Main].kind # "AlreadyRecording"
                /\ call' = "stop_video_recording" => out'[Main].kind = "NotRecording")]_vars

C18_Witness ==
    /\ pc[Main] = "api_end"
    /\ call = "start_video_recording"
    /\ out[Main].kind = "rec_failed"
    /\ out[Main].how = "exited"
    /\ ~recording
    /\ video_process = None

\* C19: a stop_video_recording called with an active recording calls
\* start_preview before it returns, on every path: its return is the return
\* of that start_preview.
C19_StopVideoRestartsPreview ==
    [][(call = "stop_video_recording" /\ pc[Main] # "api_end" /\ pc'[Main] = "api_end")
         => pc[Main] = "pv_popen"]_vars

\* C20: take_photo, start_video_recording and stop_video_recording never let an
\* exception out: a spawn failure, a timeout, a non-zero exit and a missing
\* output file each end as a reported outcome of the call, never as an
\* exception that leaves take_photo.
C20_CaptureErrorsBecomeReports ==
    \A t \in Threads : pc[t] = "tp_done" => out[t].kind # "uncaught"

\* C21: a failure of the process-table query or of the kill command while
\* cleanup() reaps one tool name is swallowed: cleanup goes on to the other
\* tool name (which it kills if it finds it), restores the terminal and
\* completes; no exception leaves it.
C21_CleanupSwallowsReapFailure ==
    [][/\ (pc[Main] = "cl_still" /\ pc'[Main] # "cl_still") => pc'[Main] = "cl_vid"
       /\ (pc[Main] = "cl_vid" /\ pc'[Main] # "cl_vid")
            => (pc'[Main] = "cl_done" /\ out'[Main].kind = "cleanup_complete")
       /\ (pc[Main] = "cl_vid" /\ Matching("raspivid") # {})
            => ENABLED (ClVid /\ <<"pkill9", "raspivid">> \in sent')]_vars

C21_Witness ==
    /\ pc[Main] = "cl_done"
    /\ faulty
    /\ Matching("raspistill") # {}
    /\ out[Main].kind = "cleanup_complete"

\* C22: when stop_preview returns, no process whose command line matches
\* raspistill is alive, whether or not a preview handle was held at the call
\* and however the held process ended, provided the kill commands work.
C22_NoPreviewToolAfterStop ==
    (pc[Main] = "api_end" /\ call = "stop_preview" /\ ~faulty)
        => Matching("raspistill") = {}

C22_Witness ==
    /\ pc[Main] = "api_end"
    /\ call = "stop_preview"
    /\ ~faulty
    /\ <<"pkill9", "raspistill">> \in sent
    /\ Matching("raspistill") = {}

\* C23: at startup the reap of both tool names (raspistill, then raspivid) is
\* over before the application spawns its first camera process, the initial
\* preview of run(): while main() is reaping, no process of the application
\* exists and no capture thread runs.
C23_ReapBeforeFirstSpawn ==
    pc[Main] \in {"boot_still", "boot_vid", "construct"} =>
        /\ \A p \in Pid : procs[p] \in {"none", "stale_still", "stale_vid"}
        /\ preview_process = None /\ video_process = None
        /\ \A w \in Workers : pc[w] = "off"

C23_Witness ==
    /\ pc[Main] = "run_ready"
    /\ Alive(preview_process)
    /\ procs[preview_process] = "preview"
    /\ Cardinality({p \in Pid : procs[p] # "none"}) = 1

\* C24: in stop_preview and stop_video_recording the kill signal (Popen.kill())
\* goes to the held process only when the grace wait that follows the
\* termination signal (2 s for the preview, 5 s for the video tool) has expired
\* with the process still alive; the wait is entered with the termination
\* signal sent; a held process that exits within the wait is sent no kill.
C24_KillOnlyAfterTermAndGrace ==
    [][/\ (\E x \in sent' : x[1] = "kill")
            => \E t \in Threads :
                 \/ /\ pc[t] = "sp_wait2" /\ pc'[t] = "sp_wait1"
                    /\ Alive(preview_process)
                    /\ sent' = {<<"kill", procs[preview_process]>>}
                 \/ /\ pc[t] = "xv_wait5" /\ pc'[t] = "xv_wait2"
                    /\ Alive(video_process)
                    /\ sent' = {<<"kill", procs[video_process]>>}
       /\ \A t \in Threads :
            /\ (pc[t] # "sp_wait2" /\ pc'[t] = "sp_wait2" /\ Alive(preview_process))
                 => <<"term", procs[preview_process]>> \in sent'
            /\ (pc[t] # "xv_wait5" /\ pc'[t] = "xv_wait5" /\ Alive(video_process))
                 => <<"term", procs[video_process]>> \in sent'
            /\ (pc[t] = "sp_wait2" /\ pc'[t] = "sp_reap") => sent' = {}
            /\ (pc[t] = "xv_wait5" /\ pc'[t] = "xv_reap") => sent' = {}]_vars

C24_Witness ==
    /\ pc[Main] = "sp_wait1"
    /\ call = "stop_preview"
    /\ sent = {<<"kill", "preview">>}
    /\ Alive(preview_process)

\* C25: start_preview launches the preview tool with the recording-indicator
\* overlay arguments if and only if recording is True at the moment of launch.
C25_OverlayIffRecording ==
    [][\A t \in Threads :
         (/\ pc[t] = "pv_popen" /\ pc'[t] # "pv_popen"
          /\ procs' # procs)
         => /\ preview_process' # None
            /\ procs[preview_process'] = "none"
            /\ procs'[preview_process'] \in {"preview", "preview_rec"}
            /\ procs'[preview_process'] = "preview_rec" <=> recording]_vars

C25_Witness ==
    /\ pc[Main] = "api_end"
    /\ call = "start_preview"
    /\ recording
    /\ Alive(preview_process)
    /\ procs[preview_process] = "preview_rec"

\* C26: after a start_video_recording that is not refused as already
\* recording, the preview is stopped (preview_process None, preview_active
\* False): it is stopped before the video tool is spawned and it is not
\* started again when the start fails, so a failed start leaves neither a
\* preview nor a recording active.
C26_VideoStartStopsPreview ==
    call = "start_video_recording" =>
        /\ pc[Main] \in {"sv_popen", "sv_poll"}
             => (preview_process = None /\ ~preview_active)
        /\ (pc[Main] = "api_end" /\ out[Main].kind # "AlreadyRecording")
             => (preview_process = None /\ ~preview_active)
        /\ (pc[Main] = "api_end" /\ out[Main].kind = "rec_failed")
             => (~recording /\ video_process = None)

C26_Witness ==
    /\ call = "start_video_recording"
    /\ pc[Main] = "api_end"
    /\ out[Main].kind = "rec_failed"
    /\ preview_process = None /\ ~preview_active
    /\ ~recording /\ video_process = None
    /\ Previews = {} /\ Videos = {}

\* C27: each take_photo call ends with exactly one outcome among photo saved,
\* verification failed (exit 0, file missing), command failed with its exit
\* code, timed out, tool not found and unexpected error: the one that belongs
\* to the way the photo tool ended, never none.
C27_ExactlyOneOutcome ==
    [][\A t \in Threads :
         (pc[t] \in {"tp_enter", "tp_run", "tp_wait"} /\ pc'[t] \in {"tp_report", "tp_done"})
         => /\ out'[t].kind \in {"saved", "verify_failed", "failed", "timeout",
                                 "notfound", "unexpected"}
            /\ out'[t].kind = PhotoReport(out'[t].how, out'[t].rc,
                                          out'[t].exists, out'[t].size)]_vars

\* C28: start_preview called while the preview is active first stops the
\* running preview process and only then spawns the new one, so that
\* afterwards exactly one preview process exists and preview_process refers
\* to it.
C28_RestartLeavesOnePreview ==
    (pc[Main] = "api_end" /\ call = "start_preview" /\ ~pv_err[Main])
        => (Previews = {preview_process} /\ preview_active)

\* C29: the application ends fatally only for an unrecoverable startup
\* condition, the output directories that cannot be created (exit status 1,
\* before any camera process is spawned); no other condition at startup and
\* no failure after the main loop has started ends it.
C29_FatalOnlyForOutputDirs ==
    /\ pc[Main] = "exit1"
         => (/\ out[Main].kind = "no_dirs"
             /\ \A p \in Pid : procs[p] \in {"none", "stale_still", "stale_vid"})
    /\ pc[Main] # "crashed"

\* the exit codes the code gives a category of their own
KnownCodes == {1, 64, 70, 130}

C31_ShellStartsWithoutCamera ==
    pc[Main] = "sh_bash" =>
        /\ preview_process = None
        /\ video_process = None
        /\ ~preview_active
        /\ ~recording

\* C32: cleanup() called during a recording stops the video first and the
\* preview second, so the preview stop_video_recording restarts is stopped
\* again: when stop_video_recording has returned the recording is over, and
\* when the reap of cleanup has finished recording and preview_active are False,
\* both handles are None and, where the kill commands work, no camera process
\* of the application is left.
C32_CleanupStopsVideoThenPreview ==
    /\ pc[Main] = "cl_sp" => (~recording /\ video_process = None)
    /\ pc[Main] = "cl_done"
         => (/\ ~recording
             /\ ~preview_active
             /\ preview_process = None
             /\ video_process = None
             /\ ~faulty => (Previews = {} /\ Videos = {}))

\* stop_video_recording has returned into cleanup() with the preview it restarted
C32_Witness ==
    /\ pc[Main] = "cl_sp"
    /\ preview_active
    /\ Alive(preview_process)

\* C33: a 'q' or ESC key ends the key loop (no further key is processed) and
\* cleanup() follows, once; a loop that ends through an exception raised while
\* a key is processed is also followed by cleanup(), once.
C33_QuitRunsCleanupOnce ==
    [][/\ KeyQ => (~running' /\ pc'[Main] = "kp_end")
       /\ (pc[Main] = "kp_end" /\ ~running /\ pc'[Main] # "kp_end") => pc'[Main] = "cl_enter"
       /\ (pc[Main] \in {"idle", "p_off"} /\ pc'[Main] = "crashed") => FALSE
       /\ pc[Main] = "cl_done" => pc'[Main] = "cl_done"]_vars

\* C34: the file stop_video_recording reports as saved is the output file of
\* the recording being stopped, whatever else the videos directory holds; when
\* the recording wrote no file, no file is reported as saved.
C34_ReportedFileIsTheRecording ==
    vrep.ran =>
        vrep.reported = (IF vrep.dir[TargetFile] # 0 THEN TargetFile ELSE None)

\* C35: cleanup_old_files(max_photos=N, max_videos=M) keeps only the newest
\* files, for every N, M >= 0 and every directory content, given that the
\* removals succeed: at most N photos and M videos remain, the removed files are
\* the oldest, and nothing is removed when the count does not exceed the limit.
C35_KeepsOnlyNewest ==
    LET KeepsNewest(k) ==
            LET kept == Globbed(k.after)
                gone == Globbed(k.before) \ kept
            IN  /\ Cardinality(kept) <= k.max
                /\ \A r \in gone, f \in kept : k.before[r] <= k.before[f]
                /\ Cardinality(Globbed(k.before)) <= k.max => gone = {}
    IN  (store.ran /\ store.photos.failed = {} /\ store.videos.failed = {})
            => (KeepsNewest(store.photos) /\ KeepsNewest(store.videos))

\* C36: whenever the main thread is between key commands and no take_photo
\* worker is running, preview_active is True exactly when preview_process
\* holds a process handle.
C36_ActiveIffHandle ==
    (pc[Main] = "idle" /\ \A w \in Workers : pc[w] = "off")
        => (preview_active <=> preview_process # None)

\* C37: between key commands recording is True exactly when video_process
\* holds a process handle, after any sequence of start_video_recording and
\* stop_video_recording calls, successful, failed or rejected.
C37_RecordingIffHandle ==
    pc[Main] \in {"idle", "api_end", "kp_end"} => (recording <=> video_process # None)

\* a stop_video_recording that was not rejected has returned
C37_Witness ==
    /\ pc[Main] = "api_end"
    /\ call = "stop_video_recording"
    /\ out[Main].kind # "NotRecording"
    /\ ~recording
    /\ video_process = None

\* C38: the preview stop_video_recording restarts is launched without the
\* recording overlay, because recording is cleared before start_preview is
\* called; when a stop_video_recording that ran to its end has returned and no
\* worker thread is running, no preview with the overlay is left running.
C38_RestartedPreviewHasNoOverlay ==
    /\ pc[Main] = "xv_sleep" => ~recording
    /\ (/\ pc[Main] = "kp_end"
        /\ call = "stop_video_recording"
        /\ out[Main].kind \notin {"NotRecording", "rec_stop_error"}
        /\ \A w \in Workers : pc[w] = "off")
         => (/\ ~recording
             /\ Alive(preview_process) => procs[preview_process] = "preview"
             /\ \A p \in Pid : procs[p] # "preview_rec")

\* a stop_video_recording has returned with the preview it restarted
C38_Witness ==
    /\ pc[Main] = "kp_end"
    /\ call = "stop_video_recording"
    /\ out[Main].kind \notin {"NotRecording", "rec_stop_error"}
    /\ \A w \in Workers : pc[w] = "off"
    /\ Alive(preview_process)
    /\ procs[preview_process] = "preview"

====
